---- MODULE Spec2Model ----
(***************************************************************************)
(* Virtual-classroom front-end: the Whiteboard component's page state and  *)
(* its socket events, the useAgora join() hook, the Analytics REST calls   *)
(* and the SocketService connection.                                       *)
(***************************************************************************)
EXTENDS Integers, Sequences, FiniteSets, Bags, TLC

(***************************************************************************)
(* Bounds of the model.                                                    *)
(***************************************************************************)
MaxPages == 2
MaxStrokes == 1
MaxSent == 3
MaxPending == 1
MaxStudents == 1
MaxOutbox == 2
MaxSessions == 2

MaxRecords == 3

(***************************************************************************)
(* The mounted Whiteboard components.  TeacherPage mounts one with         *)
(* isTeacher = true, the student pages mount one with isTeacher = false.   *)
(* "t" and "s" are in room "A"; events of another room "B" reach the same   *)
(* sockets.                                                                *)
(***************************************************************************)
Boards == {"t", "s"}

isTeacher(b) == b = "t"

channelName(b) == "A"

Strokes == 1..MaxStrokes

(***************************************************************************)
(* Entries of the pages array: null (a blank page), a hole left by an      *)
(* assignment past the end of the array (undefined), or the data URL that  *)
(* canvas.toDataURL('image/png') made of a canvas.  A canvas is the set of *)
(* strokes on it.                                                          *)
(***************************************************************************)
Null == [kind |-> "null", ink |-> {}]

Undefined == [kind |-> "undefined", ink |-> {}]

toDataURL(c) == [kind |-> "png", ink |-> c]

Truthy(e) == e.kind = "png"

VARIABLES
  pages,        \* pages[b]: the pages state of board b
  currentPage,  \* currentPage[b]: the currentPage state (0-based)
  canvas,       \* canvas[b]: what the <canvas> of b shows
  isDrawing,    \* isDrawing[b]
  hPages,       \* hPages[b]: the pages captured by b's socket listeners
  pending,      \* pending[b]: images whose img.onload has not run yet
  net,          \* bag of events in flight, one copy per receiver
  sent,         \* number of events the users' actions emitted so far
  last,         \* history: the step taken last
  undisturbed   \* history: only the teacher of room A changed pages, nothing lost

wbVars == <<pages, currentPage, canvas, isDrawing, hPages, pending, net, sent,
            last, undisturbed>>

(***************************************************************************)
(* The useAgora hook and the devices and services join() talks to.         *)
(***************************************************************************)
VARIABLES
  pc,           \* where the running join() call is; "idle" before the first call
  localTracks,  \* the localTracks state: [audio, video], "null" or "track"
  isJoined,
  isLoading,
  error,        \* the error state: "null" or a message
  channelRef,   \* channelRef.current: "null" or the channel
  inChannel,    \* the RTC client is in the channel (client.join succeeded, no leave)
  published,    \* the tracks client.publish was given
  trackState,   \* the SDK track objects: [audio, video], "none", "live" or "closed"
  thrown,       \* the error the running call is about to throw or threw: "null" or a message
  trackErr,     \* the error createMicrophoneAndCameraTracks rejected with
  camera,       \* the camera at the time of the call: "ok", "none", "denied", "busy"
  microphone,   \* the microphone: "ok", "none", "denied"
  failedStep,   \* history: the step of the call that failed, "none" when none did
  tokenRequests,\* history: calls of getAgoraToken made by the running call
  joinAttempts  \* history: calls of client.join made by the running call

agoraVars == <<pc, localTracks, isJoined, isLoading, error, channelRef, inChannel,
               published, trackState, thrown, trackErr, camera, microphone,
               failedStep, tokenRequests, joinAttempts>>

(***************************************************************************)
(* The Analytics component (mounted by TeacherPage while isJoined) and the *)
(* outputs of the REST calls.                                              *)
(***************************************************************************)
VARIABLES
  analytics,    \* the analytics state: the list of records last fetched
  topics,       \* the topics state: "none", "active" or "ended"
  currentTopic, \* the topic input: "" or "T"
  console,      \* what the REST call made last wrote with console.error, "-" for nothing
  alertBox,     \* what the REST call made last showed with alert(), "-" for nothing
  rest          \* history: the REST call made last and whether it failed

analyticsVars == <<analytics, topics, currentTopic>>

outputVars == <<console, alertBox, rest>>

restVars == <<analyticsVars, outputVars>>

(***************************************************************************)
(* SocketService, useSocket and what TeacherPage does with the socket.     *)
(***************************************************************************)
VARIABLES
  socket,       \* SocketService.socket: "null" or "io"
  connected,    \* the socket.io client is connected
  attempts,     \* connection attempts that failed since the last connect
  sessions,     \* history: how often the socket connected
  students,     \* the students state of TeacherPage: the ids in the list
  outbox,       \* the events emitted on the socket the server has not read yet
  announced     \* handleJoin has emitted teacher:join for the current class

sockVars == <<socket, connected, attempts, sessions, students, outbox, announced>>

nonWbVars == <<agoraVars, restVars, sockVars>>

nonAgoraVars == <<wbVars, restVars, sockVars>>

vars == <<wbVars, agoraVars, restVars, sockVars>>

Max(a, b) == IF a >= b THEN a ELSE b

Min(a, b) == IF a <= b THEN a ELSE b

(***************************************************************************)
(* newPages[i] = v in JavaScript: writing past the end leaves holes.       *)
(***************************************************************************)
SetAt(P, i, v) ==
  [k \in 1..Max(Len(P), i + 1) |->
     IF k = i + 1 THEN v ELSE IF k <= Len(P) THEN P[k] ELSE Undefined]

(***************************************************************************)
(* pages[i] in JavaScript: undefined outside the array.                    *)
(***************************************************************************)
At(P, i) == IF i >= 0 /\ i < Len(P) THEN P[i + 1] ELSE Undefined

(***************************************************************************)
(* Payloads of the events, as the emit calls build them.                   *)
(***************************************************************************)
DrawPayload(b, k) == [channelName |-> channelName(b), stroke |-> k]

ClearPayload(b) == [channelName |-> channelName(b), page |-> currentPage[b]]

NewPagePayload(b) ==
  [channelName |-> channelName(b), pageCount |-> Len(pages[b]) + 1]

ChangePagePayloadWithImage(b, pageIndex) ==
  [channelName |-> channelName(b), page |-> pageIndex, image |-> toDataURL(canvas[b])]

ChangePagePayload(b, pageIndex) ==
  [channelName |-> channelName(b), page |-> pageIndex]

(***************************************************************************)
(* The relay: an emitted event reaches every other socket at most once.    *)
(* from, senderPages and drawnOn are history (the emitting Whiteboard, the  *)
(* page list it holds after the emitting handler and, for a stroke, the    *)
(* page it was drawn on), no handler reads them.                           *)
(***************************************************************************)
Envelope(b, to, type, data, sp) ==
  [from |-> b, to |-> to, type |-> type, data |-> data, senderPages |-> sp,
   drawnOn |-> IF type = "whiteboard:draw" THEN currentPage[b] ELSE -1]

Broadcast(b, type, data, sp) ==
  SetToBag({Envelope(b, to, type, data, sp) : to \in Boards \ {b}})

CanEmit == sent < MaxSent

(***************************************************************************)
(* The record kept in `last` while the step taken last is a socket         *)
(* listener's: the board, the listener, the payload it was given and, for  *)
(* whiteboard:changePage, the page named by the whiteboard:changePage of   *)
(* its room that the same board handled in the step before (-1 when there  *)
(* was none).  A handler of local input that returns at its isTeacher      *)
(* guard leaves LocalStep; every other step leaves NoStep.                 *)
(***************************************************************************)
NoStep == [board |-> "-", op |-> "-", data |-> [channelName |-> "-"], prev |-> -1]

LocalStep(b, op) ==
  [board |-> b, op |-> op, data |-> [channelName |-> "-"], prev |-> -1]

Step(b, op, data) ==
  [board |-> b, op |-> op, data |-> data,
   prev |-> IF last.board = b /\ last.op = "on:changePage" /\ op = "on:changePage"
               /\ last.data.channelName = channelName(b)
            THEN last.data.page ELSE -1]

NoError == [code |-> "-", mentionsVideo |-> FALSE]

NoCall == [call |-> "-", failed |-> FALSE]

(***************************************************************************)
(* SocketService.connect(): creates the socket when none is held.          *)
(***************************************************************************)
connect(held) == IF held = "null" THEN "io" ELSE held

reconnectionAttempts == 5

Init ==
  /\ pages = [b \in Boards |-> <<Null>>]
  /\ currentPage = [b \in Boards |-> 0]
  /\ canvas = [b \in Boards |-> {}]
  /\ isDrawing = [b \in Boards |-> FALSE]
  /\ hPages = [b \in Boards |-> <<Null>>]
  /\ pending = [b \in Boards |-> <<>>]
  /\ net = EmptyBag
  /\ sent = 0
  /\ last = NoStep
  /\ undisturbed = TRUE
  /\ pc = "idle"
  /\ localTracks = [audio |-> "null", video |-> "null"]
  /\ isJoined = FALSE
  /\ isLoading = FALSE
  /\ error = "null"
  /\ channelRef = "null"
  /\ inChannel = FALSE
  /\ published = {}
  /\ trackState = [audio |-> "none", video |-> "none"]
  /\ thrown = "null"
  /\ trackErr = NoError
  /\ camera = "ok"
  /\ microphone = "ok"
  /\ failedStep = "none"
  /\ tokenRequests = 0
  /\ joinAttempts = 0
  /\ analytics = <<>>
  /\ topics = "none"
  /\ currentTopic = ""
  /\ console = "-"
  /\ alertBox = "-"
  /\ rest = NoCall
  /\ socket = connect("null")
  /\ connected = FALSE
  /\ attempts = 0
  /\ sessions = 0
  /\ students = {}
  /\ outbox = <<>>
  /\ announced = FALSE

(***************************************************************************)
(* saveCurrentPage: a copy of the pages the calling closure sees, with the *)
(* image of the canvas stored at the closure's currentPage.                *)
(***************************************************************************)
saveCurrentPage(b, P) == SetAt(P, currentPage[b], toDataURL(canvas[b]))

(***************************************************************************)
(* The guard every socket listener starts with.                            *)
(***************************************************************************)
SameChannelAny(b, data) == TRUE

SameChannel(b, data) == data.channelName = channelName(b)

(***************************************************************************)
(* The effect that registers the socket listeners has currentPage among    *)
(* its dependencies and pages not: the listeners are registered again,     *)
(* with the closures of the new render, only when currentPage changed.     *)
(***************************************************************************)
Resubscribe(b, newCurrent, newPages) ==
  IF newCurrent # currentPage[b] THEN newPages ELSE hPages[b]

(***************************************************************************)
(* goToPage(pageIndex) run from a closure that sees pages = P: save the    *)
(* canvas into P, switch, clear the canvas, start loading P[pageIndex]     *)
(* when it holds an image, emit whiteboard:changePage.  `taken` is the     *)
(* event this call handles (the empty bag for a click).                    *)
(***************************************************************************)
setCurrentPageForward(b, pageIndex) ==
  [currentPage EXCEPT ![b] = Max(@, pageIndex)]

setCurrentPage(b, pageIndex) == [currentPage EXCEPT ![b] = pageIndex]

goToPage(b, pageIndex, P, taken) ==
  LET newPages == saveCurrentPage(b, P)
      img == At(P, pageIndex)
  IN /\ Truthy(img) => Len(pending[b]) < MaxPending
     /\ pages' = [pages EXCEPT ![b] = newPages]
     /\ currentPage' = setCurrentPage(b, pageIndex)
     /\ canvas' = [canvas EXCEPT ![b] = {}]
     /\ pending' = [pending EXCEPT ![b] = IF Truthy(img) THEN Append(@, img) ELSE @]
     /\ hPages' = [hPages EXCEPT ![b] = Resubscribe(b, currentPage'[b], newPages)]
     /\ net' = (net (-) taken) (+)
               Broadcast(b, "whiteboard:changePage", ChangePagePayload(b, pageIndex),
                         newPages)
     /\ UNCHANGED isDrawing

(***************************************************************************)
(* The page-navigation buttons, rendered when pages.length > 1: Previous   *)
(* (disabled on page 0), one button per entry of pages (map skips holes),  *)
(* Next (disabled on the last page).                                       *)
(***************************************************************************)
NavTargets(b) ==
  LET n == Len(pages[b])
      c == currentPage[b]
  IN IF n > 1
     THEN (IF c # 0 THEN {Max(0, c - 1)} ELSE {})
          \cup {i \in 0..(n - 1) : pages[b][i + 1] # Undefined}
          \cup (IF c # n - 1 THEN {Min(n - 1, c + 1)} ELSE {})
     ELSE {}

ClickPage(b) ==
  \E pageIndex \in NavTargets(b) :
    /\ CanEmit
    /\ goToPage(b, pageIndex, pages[b], EmptyBag)
    /\ sent' = sent + 1
    /\ last' = NoStep
    /\ undisturbed' = (undisturbed /\ b = "t")
    /\ UNCHANGED nonWbVars

(***************************************************************************)
(* addNewPage: both setPages calls are made from the same closure, the     *)
(* second one ([...pages, null]) replaces the first (saveCurrentPage).     *)
(***************************************************************************)
addNewPage(b) ==
  /\ Len(pages[b]) < MaxPages
  /\ UNCHANGED nonWbVars
  /\ IF ~isTeacher(b)
     THEN /\ last' = LocalStep(b, "addNewPage")
          /\ UNCHANGED <<pages, currentPage, canvas, isDrawing, hPages, pending, net, sent,
                         undisturbed>>
     ELSE LET newPages == Append(pages[b], Null)
          IN /\ CanEmit
             /\ pages' = [pages EXCEPT ![b] = newPages]
             /\ currentPage' = setCurrentPage(b, Len(pages[b]))
             /\ canvas' = [canvas EXCEPT ![b] = {}]
             /\ hPages' = [hPages EXCEPT ![b] = Resubscribe(b, Len(pages[b]), newPages)]
             /\ net' = net (+) Broadcast(b, "whiteboard:newPage", NewPagePayload(b),
                                         newPages)
             /\ sent' = sent + 1
             /\ last' = NoStep
             /\ undisturbed' = (undisturbed /\ b = "t")
             /\ UNCHANGED <<isDrawing, pending>>

startDrawing(b) ==
  /\ IF ~isTeacher(b)
     THEN UNCHANGED isDrawing
     ELSE isDrawing' = [isDrawing EXCEPT ![b] = TRUE]
  /\ last' = IF ~isTeacher(b) THEN LocalStep(b, "startDrawing") ELSE NoStep
  /\ UNCHANGED nonWbVars
  /\ UNCHANGED <<pages, currentPage, canvas, hPages, pending, net, sent, undisturbed>>

stopDrawing(b) ==
  /\ isDrawing' = [isDrawing EXCEPT ![b] = FALSE]
  /\ last' = NoStep
  /\ UNCHANGED nonWbVars
  /\ UNCHANGED <<pages, currentPage, canvas, hPages, pending, net, sent, undisturbed>>

draw(b) ==
  \E k \in Strokes :
    /\ UNCHANGED nonWbVars
    /\ IF ~isDrawing[b] \/ ~isTeacher(b)
       THEN /\ last' = IF ~isTeacher(b) THEN LocalStep(b, "draw") ELSE NoStep
            /\ UNCHANGED <<pages, currentPage, canvas, isDrawing, hPages, pending, net, sent,
                           undisturbed>>
       ELSE /\ CanEmit
            /\ canvas' = [canvas EXCEPT ![b] = @ \cup {k}]
            /\ net' = net (+) Broadcast(b, "whiteboard:draw", DrawPayload(b, k), pages[b])
            /\ sent' = sent + 1
            /\ last' = NoStep
            /\ undisturbed' = FALSE
            /\ UNCHANGED <<pages, currentPage, isDrawing, hPages, pending>>

handleClearUnguarded(b) ==
  /\ UNCHANGED nonWbVars
  /\ CanEmit
  /\ canvas' = [canvas EXCEPT ![b] = {}]
  /\ net' = net (+) Broadcast(b, "whiteboard:clear", ClearPayload(b), pages[b])
  /\ sent' = sent + 1
  /\ last' = NoStep
  /\ undisturbed' = FALSE
  /\ UNCHANGED <<pages, currentPage, isDrawing, hPages, pending>>

handleClear(b) ==
  /\ UNCHANGED nonWbVars
  /\ IF ~isTeacher(b)
     THEN /\ last' = LocalStep(b, "handleClear")
          /\ UNCHANGED <<pages, currentPage, canvas, isDrawing, hPages, pending, net, sent,
                         undisturbed>>
     ELSE /\ CanEmit
          /\ canvas' = [canvas EXCEPT ![b] = {}]
          /\ net' = net (+) Broadcast(b, "whiteboard:clear", ClearPayload(b), pages[b])
          /\ sent' = sent + 1
          /\ last' = NoStep
          /\ undisturbed' = FALSE
          /\ UNCHANGED <<pages, currentPage, isDrawing, hPages, pending>>

(***************************************************************************)
(* toggleFullscreen changes isFullscreen, a dependency of the effect: the  *)
(* listeners are registered again with the closures of the new render.     *)
(***************************************************************************)
toggleFullscreen(b) ==
  /\ hPages[b] # pages[b]
  /\ hPages' = [hPages EXCEPT ![b] = pages[b]]
  /\ last' = NoStep
  /\ UNCHANGED nonWbVars
  /\ undisturbed' = FALSE
  /\ UNCHANGED <<pages, currentPage, canvas, isDrawing, pending, net, sent>>

(***************************************************************************)
(* img.onload of an image goToPage started loading: drawImage onto         *)
(* whatever the canvas holds by then.                                      *)
(***************************************************************************)
imgOnload(b) ==
  /\ pending[b] # <<>>
  /\ canvas' = [canvas EXCEPT ![b] = @ \cup Head(pending[b]).ink]
  /\ pending' = [pending EXCEPT ![b] = Tail(@)]
  /\ last' = NoStep
  /\ UNCHANGED nonWbVars
  /\ UNCHANGED <<pages, currentPage, isDrawing, hPages, net, sent, undisturbed>>

(***************************************************************************)
(* The socket listeners.  Each is given the payload `data` of the event    *)
(* and the bag `taken` it leaves the network by (empty when the event      *)
(* comes from a Whiteboard of another room, which is not in Boards).       *)
(***************************************************************************)
Event(b, op, data) ==
  IF data.channelName = channelName(b)
  THEN Step(b, op, data)
  ELSE Step(b, "on:otherRoom", [channelName |-> data.channelName])

Ignored(b, op, data, taken) ==
  /\ net' = net (-) taken
  /\ last' = Event(b, op, data)
  /\ UNCHANGED <<pages, currentPage, canvas, isDrawing, hPages, pending, sent, undisturbed>>

handleDraw(b, data, taken) ==
  IF SameChannel(b, data)
  THEN /\ canvas' = [canvas EXCEPT ![b] = @ \cup {data.stroke}]
       /\ net' = net (-) taken
       /\ last' = Event(b, "on:draw", data)
       /\ UNCHANGED <<pages, currentPage, isDrawing, hPages, pending, sent, undisturbed>>
  ELSE Ignored(b, "on:draw", data, taken)

handleClearEventAnyPage(b, data, taken) ==
  IF SameChannel(b, data)
  THEN /\ canvas' = [canvas EXCEPT ![b] = {}]
       /\ net' = net (-) taken
       /\ last' = Event(b, "on:clear", data)
       /\ UNCHANGED <<pages, currentPage, isDrawing, hPages, pending, sent, undisturbed>>
  ELSE Ignored(b, "on:clear", data, taken)

handleClearEvent(b, data, taken) ==
  IF SameChannel(b, data) /\ data.page = currentPage[b]
  THEN /\ canvas' = [canvas EXCEPT ![b] = {}]
       /\ net' = net (-) taken
       /\ last' = Event(b, "on:clear", data)
       /\ UNCHANGED <<pages, currentPage, isDrawing, hPages, pending, sent, undisturbed>>
  ELSE Ignored(b, "on:clear", data, taken)

newPageUpdaterToCount(prev, data) ==
  [k \in 1..Max(Len(prev), data.pageCount) |-> IF k <= Len(prev) THEN prev[k] ELSE Null]

newPageUpdater(prev, data) == Append(prev, Null)

handleNewPage(b, data, taken) ==
  IF SameChannel(b, data)
  THEN /\ pages' = [pages EXCEPT ![b] = newPageUpdater(@, data)]
       /\ net' = net (-) taken
       /\ last' = Event(b, "on:newPage", data)
       /\ UNCHANGED <<currentPage, canvas, isDrawing, hPages, pending, sent, undisturbed>>
  ELSE Ignored(b, "on:newPage", data, taken)

handleChangePage(b, data, taken) ==
  IF SameChannel(b, data)
  THEN /\ goToPage(b, data.page, hPages[b], taken)
       /\ last' = Event(b, "on:changePage", data)
       /\ UNCHANGED <<sent, undisturbed>>
  ELSE Ignored(b, "on:changePage", data, taken)

Inbox(b, type) == {m \in BagToSet(net) : m.to = b /\ m.type = type}

receiveDraw(b, m) == handleDraw(b, m.data, SetToBag({m})) /\ UNCHANGED nonWbVars

receiveClear(b, m) == handleClearEvent(b, m.data, SetToBag({m})) /\ UNCHANGED nonWbVars

receiveNewPage(b, m) == handleNewPage(b, m.data, SetToBag({m})) /\ UNCHANGED nonWbVars

receiveChangePage(b, m) ==
  handleChangePage(b, m.data, SetToBag({m})) /\ UNCHANGED nonWbVars

onDraw(b) == \E m \in Inbox(b, "whiteboard:draw") : receiveDraw(b, m)

onClear(b) == \E m \in Inbox(b, "whiteboard:clear") : receiveClear(b, m)

onNewPage(b) == \E m \in Inbox(b, "whiteboard:newPage") : receiveNewPage(b, m)

onChangePage(b) == \E m \in Inbox(b, "whiteboard:changePage") : receiveChangePage(b, m)

(***************************************************************************)
(* Events of room "B", emitted by Whiteboards mounted elsewhere.           *)
(***************************************************************************)
OtherRoom == "B"

onOtherRoomEvent(b) ==
  /\ \/ \E k \in Strokes :
          handleDraw(b, [channelName |-> OtherRoom, stroke |-> k], EmptyBag)
     \/ \E p \in 0..(MaxPages - 1) :
          handleClearEvent(b, [channelName |-> OtherRoom, page |-> p], EmptyBag)
     \/ handleNewPage(b, [channelName |-> OtherRoom, pageCount |-> 2], EmptyBag)
     \/ \E p \in 0..(MaxPages - 1) :
          handleChangePage(b, [channelName |-> OtherRoom, page |-> p], EmptyBag)
  /\ UNCHANGED nonWbVars

(***************************************************************************)
(* Delivery is at most once: an event in flight may be dropped.            *)
(***************************************************************************)
Lose ==
  \E m \in BagToSet(net) :
    /\ net' = net (-) SetToBag({m})
    /\ last' = NoStep
    /\ undisturbed' = FALSE
    /\ UNCHANGED <<pages, currentPage, canvas, isDrawing, hPages, pending, sent>>
    /\ UNCHANGED nonWbVars

Next ==
  \/ \E b \in Boards : ClickPage(b)
  \/ \E b \in Boards : addNewPage(b)
  \/ \E b \in Boards : startDrawing(b)
  \/ \E b \in Boards : stopDrawing(b)
  \/ \E b \in Boards : draw(b)
  \/ \E b \in Boards : handleClear(b)
  \/ \E b \in Boards : toggleFullscreen(b)
  \/ \E b \in Boards : imgOnload(b)
  \/ \E b \in Boards : onDraw(b)
  \/ \E b \in Boards : onClear(b)
  \/ \E b \in Boards : onNewPage(b)
  \/ \E b \in Boards : onChangePage(b)
  \/ \E b \in Boards : onOtherRoomEvent(b)
  \/ Lose

Spec == Init /\ [][Next]_vars

(***************************************************************************)
(* useAgora.join(channelName, role), one action per await.  The devices    *)
(* are what they are when join() is called; the token service, the RTC     *)
(* client and the SDK's track constructors succeed or reject.              *)
(***************************************************************************)
CameraStates == {"ok", "none", "denied", "busy"}

MicrophoneStates == {"ok", "none", "denied"}

DeviceCheckMessage == "Cannot access camera/microphone. Please allow permissions."

NoMediaMessage == "Cannot access camera or microphone. Please check: ..."

joinFrame == UNCHANGED nonAgoraVars

(***************************************************************************)
(* throw inside the try block: control goes to the catch clause.           *)
(***************************************************************************)
Throw(message, step) ==
  /\ thrown' = message
  /\ failedStep' = step
  /\ pc' = "catch"

join ==
  /\ pc \in {"idle", "threw"}
  /\ ~isJoined
  /\ ~isLoading
  /\ \E c \in CameraStates, m \in MicrophoneStates :
       /\ camera' = c
       /\ microphone' = m
  /\ isLoading' = TRUE
  /\ error' = "null"
  /\ pc' = "enumerateDevices"
  /\ thrown' = "null"
  /\ trackErr' = NoError
  /\ failedStep' = "none"
  /\ tokenRequests' = 0
  /\ joinAttempts' = 0
  /\ UNCHANGED <<localTracks, isJoined, channelRef, inChannel, published, trackState>>
  /\ joinFrame

(***************************************************************************)
(* The device check: enumerateDevices rejects, or it resolves and a        *)
(* missing videoinput or audioinput device throws; the inner catch throws  *)
(* DeviceCheckMessage for both.                                            *)
(***************************************************************************)
hasCamera == camera # "none"

hasMicrophone == microphone # "none"

joinDeviceCheck ==
  /\ pc = "enumerateDevices"
  /\ \/ Throw(DeviceCheckMessage, "enumerate")
     \/ IF ~hasCamera \/ ~hasMicrophone
        THEN Throw(DeviceCheckMessage, "devices")
        ELSE /\ pc' = "getAgoraToken"
             /\ UNCHANGED <<thrown, failedStep>>
  /\ UNCHANGED <<localTracks, isJoined, isLoading, error, channelRef, inChannel,
                 published, trackState, trackErr, camera, microphone, tokenRequests,
                 joinAttempts>>
  /\ joinFrame

(***************************************************************************)
(* What a REST call leaves behind: the catch clause of a failed call, or   *)
(* the alert of a successful one.                                          *)
(***************************************************************************)
Silent == [console |-> "-", alert |-> "-"]

Report(call, ok, out) ==
  /\ rest' = [call |-> call, failed |-> ~ok]
  /\ console' = out.console
  /\ alertBox' = out.alert

getAgoraTokenCatch == [console |-> "Error getting Agora token:", alert |-> "-"]

getAgoraToken(ok) == Report("token", ok, IF ok THEN Silent ELSE getAgoraTokenCatch)

joinGetToken ==
  /\ pc = "getAgoraToken"
  /\ tokenRequests' = tokenRequests + 1
  /\ \E ok \in BOOLEAN :
       /\ getAgoraToken(ok)
       /\ IF ok
          THEN /\ pc' = "client.join"
               /\ UNCHANGED <<thrown, failedStep>>
          ELSE Throw("Request failed", "token")
  /\ UNCHANGED <<localTracks, isJoined, isLoading, error, channelRef, inChannel,
                 published, trackState, trackErr, camera, microphone, joinAttempts>>
  /\ UNCHANGED <<wbVars, analyticsVars, sockVars>>

joinClientJoin ==
  /\ pc = "client.join"
  /\ joinAttempts' = joinAttempts + 1
  /\ \/ /\ inChannel' = TRUE
        /\ channelRef' = "A"
        /\ pc' = "createTracks"
        /\ UNCHANGED <<thrown, failedStep>>
     \/ /\ Throw("join rejected", "join")
        /\ UNCHANGED <<inChannel, channelRef>>
  /\ UNCHANGED <<localTracks, isJoined, isLoading, error, published, trackState,
                 trackErr, camera, microphone, tokenRequests>>
  /\ joinFrame

(***************************************************************************)
(* The errors createMicrophoneAndCameraTracks can reject with, given the   *)
(* devices; whether the SDK's message contains "video" is the SDK's.       *)
(***************************************************************************)
TrackErrors ==
  {[code |-> c, mentionsVideo |-> v] :
     c \in (IF camera = "busy" THEN {"NOT_READABLE"} ELSE {})
           \cup (IF camera = "denied" \/ microphone = "denied"
                 THEN {"PERMISSION_DENIED"} ELSE {}),
     v \in BOOLEAN}

FallsBackToAudio(err) == err.mentionsVideo \/ err.code = "NOT_READABLE"

joinCreateTracks ==
  /\ pc = "createTracks"
  /\ IF camera = "ok" /\ microphone = "ok"
     THEN /\ trackState' = [audio |-> "live", video |-> "live"]
          /\ localTracks' = [audio |-> "track", video |-> "track"]
          /\ pc' = "publish"
          /\ UNCHANGED <<thrown, failedStep, trackErr>>
     ELSE \E err \in TrackErrors :
            /\ trackErr' = err
            /\ IF FallsBackToAudio(err)
               THEN /\ pc' = "createMicrophoneAudioTrack"
                    /\ UNCHANGED <<thrown, failedStep>>
               ELSE Throw(err.code, "tracks")
            /\ UNCHANGED <<trackState, localTracks>>
  /\ UNCHANGED <<isJoined, isLoading, error, channelRef, inChannel, published, camera,
                 microphone, tokenRequests, joinAttempts>>
  /\ joinFrame

joinCreateAudioOnly ==
  /\ pc = "createMicrophoneAudioTrack"
  /\ IF microphone = "ok"
     THEN /\ trackState' = [audio |-> "live", video |-> "none"]
          /\ localTracks' = [audio |-> "track", video |-> "null"]
          /\ pc' = "publish"
          /\ UNCHANGED <<thrown, failedStep>>
     ELSE /\ Throw(NoMediaMessage, "audio")
          /\ UNCHANGED <<trackState, localTracks>>
  /\ UNCHANGED <<isJoined, isLoading, error, channelRef, inChannel, published, trackErr,
                 camera, microphone, tokenRequests, joinAttempts>>
  /\ joinFrame

joinPublish ==
  /\ pc = "publish"
  /\ \/ /\ published' = {k \in {"audio", "video"} : localTracks[k] # "null"}
        /\ isJoined' = TRUE
        /\ isLoading' = FALSE
        /\ pc' = "returned"
        /\ UNCHANGED <<thrown, failedStep>>
     \/ /\ Throw("publish rejected", "publish")
        /\ UNCHANGED <<published, isJoined, isLoading>>
  /\ UNCHANGED <<localTracks, error, channelRef, inChannel, trackState, trackErr, camera,
                 microphone, tokenRequests, joinAttempts>>
  /\ joinFrame

(***************************************************************************)
(* The catch clause of join(): record the message, stop loading, leave the *)
(* channel when one was recorded, rethrow.                                 *)
(***************************************************************************)
joinCatchKeepsLoading ==
  /\ pc = "catch"
  /\ error' = thrown
  /\ pc' = IF channelRef # "null" THEN "cleanup" ELSE "threw"
  /\ UNCHANGED <<localTracks, isJoined, isLoading, channelRef, inChannel, published,
                 trackState, thrown, trackErr, camera, microphone, failedStep,
                 tokenRequests, joinAttempts>>
  /\ joinFrame

joinCatch ==
  /\ pc = "catch"
  /\ error' = thrown
  /\ isLoading' = FALSE
  /\ pc' = IF channelRef # "null" THEN "cleanup" ELSE "threw"
  /\ UNCHANGED <<localTracks, isJoined, channelRef, inChannel, published, trackState,
                 thrown, trackErr, camera, microphone, failedStep, tokenRequests,
                 joinAttempts>>
  /\ joinFrame

joinCleanup ==
  /\ pc = "cleanup"
  /\ \/ /\ inChannel' = FALSE
        /\ published' = {}
     \/ UNCHANGED <<inChannel, published>>
  /\ pc' = "threw"
  /\ UNCHANGED <<localTracks, isJoined, isLoading, error, channelRef, trackState, thrown,
                 trackErr, camera, microphone, failedStep, tokenRequests, joinAttempts>>
  /\ joinFrame

(***************************************************************************)
(* leave(), called from the page's Leave button: stop and close the tracks *)
(* of localTracks, leave the channel, reset the state.  When client.leave  *)
(* rejects the catch clause only logs.                                     *)
(***************************************************************************)
ClosedTracks ==
  [k \in {"audio", "video"} |->
     IF localTracks[k] # "null" THEN "closed" ELSE trackState[k]]

leaveCall(ok) ==
  /\ pc = "returned"
  /\ isJoined
  /\ trackState' = ClosedTracks
  /\ IF ok
     THEN /\ inChannel' = FALSE
          /\ published' = {}
          /\ localTracks' = [audio |-> "null", video |-> "null"]
          /\ isJoined' = FALSE
          /\ channelRef' = "null"
          /\ pc' = "idle"
     ELSE UNCHANGED <<inChannel, published, localTracks, isJoined, channelRef, pc>>
  /\ UNCHANGED <<isLoading, error, thrown, trackErr, camera, microphone, failedStep,
                 tokenRequests, joinAttempts>>

(***************************************************************************)
(* TeacherPage renders Analytics only while isJoined: when leave() resets  *)
(* isJoined the component unmounts and its state is gone.                  *)
(***************************************************************************)
AnalyticsAfterLeave(ok) ==
  IF ok
  THEN /\ analytics' = <<>>
       /\ topics' = "none"
       /\ currentTopic' = ""
  ELSE UNCHANGED analyticsVars

leave ==
  \E ok \in BOOLEAN :
    /\ leaveCall(ok)
    /\ AnalyticsAfterLeave(ok)
    /\ UNCHANGED <<wbVars, outputVars, sockVars>>

(***************************************************************************)
(* Unmount of the component using useAgora.  The cleanup of the mount      *)
(* effect (deps []) calls the leave of the first render, whose localTracks *)
(* is the initial state; clientRef is a ref, so client.leave() is called   *)
(* on the live client.  The state of an unmounted component is no longer   *)
(* updated.  The pages' own cleanup tests the isJoined of the first render *)
(* (false) and does nothing.                                               *)
(***************************************************************************)
InitialLocalTracks == [audio |-> "null", video |-> "null"]

TracksClosedBy(seen) ==
  [k \in {"audio", "video"} |->
     IF seen[k] # "null" THEN "closed" ELSE trackState[k]]

unmount ==
  /\ pc \in {"idle", "returned", "threw"}
  /\ trackState' = TracksClosedBy(InitialLocalTracks)
  /\ \/ /\ inChannel' = FALSE
        /\ published' = {}
        /\ channelRef' = "null"
     \/ UNCHANGED <<inChannel, published, channelRef>>
  /\ pc' = "unmounted"
  /\ AnalyticsAfterLeave(TRUE)
  /\ UNCHANGED <<localTracks, isJoined, isLoading, error, thrown, trackErr, camera,
                 microphone, failedStep, tokenRequests, joinAttempts>>
  /\ UNCHANGED <<wbVars, outputVars, sockVars>>

NextJoin ==
  \/ unmount
  \/ join
  \/ joinDeviceCheck
  \/ joinGetToken
  \/ joinClientJoin
  \/ joinCreateTracks
  \/ joinCreateAudioOnly
  \/ joinPublish
  \/ joinCatch
  \/ joinCleanup
  \/ leave

SpecJoin == Init /\ [][NextJoin]_vars

(***************************************************************************)
(* The REST calls of the Analytics component.  Each request succeeds or    *)
(* fails; the fetches are repeated by a 5 s interval timer.                *)
(***************************************************************************)
analyticsFrame == UNCHANGED <<wbVars, agoraVars, sockVars>>

fetchAnalyticsCatch == [console |-> "Error fetching analytics:", alert |-> "-"]

fetchAnalyticsOf(Responses) ==
  /\ isJoined
  /\ \/ /\ \E data \in Responses : analytics' = data
        /\ Report("analytics", TRUE, Silent)
     \/ /\ Report("analytics", FALSE, fetchAnalyticsCatch)
        /\ UNCHANGED analytics
  /\ UNCHANGED <<topics, currentTopic>>
  /\ analyticsFrame

SampleAnalytics ==
  <<[timestamp |-> 60000, engagement |-> "Engaged", studentId |-> "s1"]>>

fetchAnalytics == fetchAnalyticsOf({<<>>, SampleAnalytics})

fetchTopicsCatch == [console |-> "Error fetching topics:", alert |-> "-"]

fetchTopics ==
  /\ isJoined
  /\ \/ /\ \E data \in {"none", "active", "ended"} : topics' = data
        /\ Report("topics", TRUE, Silent)
     \/ /\ Report("topics", FALSE, fetchTopicsCatch)
        /\ UNCHANGED topics
  /\ UNCHANGED <<analytics, currentTopic>>
  /\ analyticsFrame

setCurrentTopic ==
  /\ isJoined
  /\ currentTopic' = IF currentTopic = "" THEN "T" ELSE ""
  /\ UNCHANGED <<analytics, topics, outputVars>>
  /\ analyticsFrame

startTopicCatchSilent == Silent

startTopicCatch == [console |-> "Error starting topic:", alert |-> "-"]

startTopic ==
  /\ isJoined
  /\ currentTopic # ""
  /\ \/ /\ currentTopic' = ""
        /\ Report("startTopic", TRUE, [console |-> "-", alert |-> "Topic started!"])
     \/ /\ Report("startTopic", FALSE, startTopicCatch)
        /\ UNCHANGED currentTopic
  /\ UNCHANGED <<analytics, topics>>
  /\ analyticsFrame

endTopicCatch == [console |-> "Error ending topic:", alert |-> "-"]

endTopic ==
  /\ isJoined
  /\ \/ Report("endTopic", TRUE, [console |-> "-", alert |-> "Topic ended!"])
     \/ Report("endTopic", FALSE, endTopicCatch)
  /\ UNCHANGED analyticsVars
  /\ analyticsFrame

generateReportCatch ==
  [console |-> "Error generating report:",
   alert |-> "Error generating report. Please try again."]

generateReport ==
  /\ isJoined
  /\ \/ Report("report", TRUE,
               [console |-> "-", alert |-> "PDF Report generated successfully!"])
     \/ Report("report", FALSE, generateReportCatch)
  /\ UNCHANGED analyticsVars
  /\ analyticsFrame

NextRest ==
  \/ NextJoin
  \/ fetchAnalytics
  \/ fetchTopics
  \/ setCurrentTopic
  \/ startTopic
  \/ endTopic
  \/ generateReport

SpecRest == Init /\ [][NextRest]_vars

(***************************************************************************)
(* The socket of TeacherPage.  The socket.io client connects, loses the    *)
(* connection and retries on its own; the handlers SocketService.connect   *)
(* registers run on 'connect', 'disconnect' and 'connect_error'.  Events   *)
(* emitted while disconnected stay in the client's buffer.                 *)
(***************************************************************************)
StudentIds == 1..MaxStudents

socketFrame == UNCHANGED <<wbVars, agoraVars, restVars>>

connectHandlerRejoins ==
  /\ outbox' = IF isJoined /\ Len(outbox) < MaxOutbox
               THEN Append(outbox, "teacher:join")
               ELSE outbox
  /\ UNCHANGED <<students, announced>>

connectHandler == UNCHANGED <<outbox, students, announced>>

disconnectHandler == UNCHANGED <<outbox, students, announced>>

connectErrorHandler == UNCHANGED <<outbox, students, announced>>

onConnect ==
  /\ socket = "io"
  /\ ~connected
  /\ attempts < reconnectionAttempts
  /\ sessions < MaxSessions
  /\ connected' = TRUE
  /\ attempts' = 0
  /\ sessions' = sessions + 1
  /\ connectHandler
  /\ UNCHANGED socket
  /\ socketFrame

onDisconnect ==
  /\ socket = "io"
  /\ connected
  /\ connected' = FALSE
  /\ disconnectHandler
  /\ UNCHANGED <<socket, attempts, sessions>>
  /\ socketFrame

onConnectError ==
  /\ socket = "io"
  /\ ~connected
  /\ attempts < reconnectionAttempts
  /\ attempts' = attempts + 1
  /\ connectErrorHandler
  /\ UNCHANGED <<socket, connected, sessions>>
  /\ socketFrame

(***************************************************************************)
(* The server reads the oldest event the client sent.                      *)
(***************************************************************************)
serverReceive ==
  /\ connected
  /\ outbox # <<>>
  /\ outbox' = Tail(outbox)
  /\ UNCHANGED <<socket, connected, attempts, sessions, students, announced>>
  /\ socketFrame

(***************************************************************************)
(* useSocket's emit: nothing without a socket.                             *)
(***************************************************************************)
emit(event) ==
  outbox' = IF socket # "null" THEN Append(outbox, event) ELSE outbox

(***************************************************************************)
(* handleJoin after its await join(...) returned: notify the backend.      *)
(***************************************************************************)
handleJoin ==
  /\ pc = "returned"
  /\ isJoined
  /\ ~announced
  /\ Len(outbox) < MaxOutbox
  /\ emit("teacher:join")
  /\ announced' = TRUE
  /\ UNCHANGED <<socket, connected, attempts, sessions, students>>
  /\ socketFrame

(***************************************************************************)
(* handleLeave: emit teacher:leave, await leave(), empty the list.         *)
(***************************************************************************)
handleLeave ==
  /\ announced
  /\ Len(outbox) < MaxOutbox
  /\ emit("teacher:leave")
  /\ \E ok \in BOOLEAN :
       /\ leaveCall(ok)
       /\ AnalyticsAfterLeave(ok)
       /\ announced' = ~ok
  /\ students' = {}
  /\ UNCHANGED <<socket, connected, attempts, sessions>>
  /\ UNCHANGED <<wbVars, outputVars>>

handleStudentsList(data) == data

handleStudentJoined(prev, studentId) ==
  IF studentId \in prev THEN prev ELSE prev \cup {studentId}

handleStudentLeft(prev, studentId) == prev \ {studentId}

onStudentsList ==
  /\ connected
  /\ \E data \in SUBSET StudentIds : students' = handleStudentsList(data)
  /\ UNCHANGED <<socket, connected, attempts, sessions, outbox, announced>>
  /\ socketFrame

onStudentJoined ==
  /\ connected
  /\ \E id \in StudentIds : students' = handleStudentJoined(students, id)
  /\ UNCHANGED <<socket, connected, attempts, sessions, outbox, announced>>
  /\ socketFrame

onStudentLeft ==
  /\ connected
  /\ \E id \in StudentIds : students' = handleStudentLeft(students, id)
  /\ UNCHANGED <<socket, connected, attempts, sessions, outbox, announced>>
  /\ socketFrame

NextSocket ==
  \/ join
  \/ joinDeviceCheck
  \/ joinGetToken
  \/ joinClientJoin
  \/ joinCreateTracks
  \/ joinCreateAudioOnly
  \/ joinPublish
  \/ joinCatch
  \/ joinCleanup
  \/ handleJoin
  \/ handleLeave
  \/ onConnect
  \/ onDisconnect
  \/ onConnectError
  \/ serverReceive
  \/ onStudentsList
  \/ onStudentJoined
  \/ onStudentLeft

SpecSocket == Init /\ [][NextSocket]_vars

(***************************************************************************)
(* Properties of useAgora.join.                                            *)
(***************************************************************************)
JoinEnded == pc \in {"returned", "threw"}

(***************************************************************************)
(* C7: when the camera is unavailable (no device, permission denied, busy) *)
(* and the microphone is usable, and no other step of join() failed,       *)
(* join() ends joined, with the audio track published and no video track.  *)
(***************************************************************************)
C7_AudioOnlyFallback ==
  (/\ JoinEnded
   /\ camera # "ok"
   /\ microphone = "ok"
   /\ failedStep \in {"none", "devices", "tracks"})
  => /\ pc = "returned"
     /\ isJoined
     /\ published = {"audio"}
     /\ localTracks.video = "null"

(***************************************************************************)
(* C8: every failed REST call (token request, analytics fetch, topics      *)
(* fetch, start topic, end topic, report generation) is logged to the      *)
(* console and surfaces an alert.                                          *)
(***************************************************************************)
C8_FailureLoggedAndAlerted ==
  rest.failed => /\ console # "-"
                 /\ alertBox # "-"

(***************************************************************************)
(* C8, as the code has it: every failed REST call is logged to the         *)
(* console; it surfaces an alert exactly when it is the report generation. *)
(***************************************************************************)
C8_FailureLogged ==
  rest.failed => /\ console # "-"
                 /\ alertBox # "-" <=> rest.call = "report"

C8_Witness ==
  /\ rest = [call |-> "startTopic", failed |-> TRUE]
  /\ console = "Error starting topic:"
  /\ alertBox = "-"

(***************************************************************************)
(* C9: the 'connect', 'disconnect' and 'connect_error' handlers change no  *)
(* application state (join status, students list, whiteboard pages, the    *)
(* held socket) and emit nothing: in particular no teacher:join is emitted *)
(* when the socket reconnects.                                             *)
(***************************************************************************)
C9_DisconnectSilent ==
  [][(onConnect \/ onDisconnect \/ onConnectError)
       => UNCHANGED <<isJoined, announced, students, pages, socket, outbox>>]_vars

C9_Witness ==
  /\ isJoined
  /\ announced
  /\ connected
  /\ sessions = 2
  /\ outbox = <<>>
  /\ students # {}

(***************************************************************************)
(* C10: a call of join() requests at most one token and tries at most one  *)
(* channel join; when it has thrown, isLoading and isJoined are false and  *)
(* the error state is the message of the error it threw.                   *)
(***************************************************************************)
C10_FailedJoinNotRetried ==
  /\ tokenRequests <= 1
  /\ joinAttempts <= 1
  /\ pc = "threw" => /\ ~isLoading
                     /\ ~isJoined
                     /\ thrown # "null"
                     /\ error = thrown

C10_Witness ==
  /\ pc = "threw"
  /\ failedStep = "publish"
  /\ tokenRequests = 1
  /\ joinAttempts = 1

(***************************************************************************)
(* Properties of the Whiteboard.                                           *)
(***************************************************************************)
Students == {b \in Boards : ~isTeacher(b)}

PageEvents == {"whiteboard:newPage", "whiteboard:changePage"}

Quiescent ==
  /\ undisturbed
  /\ net = EmptyBag
  /\ \A b \in Boards : pending[b] = <<>>

(***************************************************************************)
(* C1: once every event of the teacher's addNewPage and goToPage calls has *)
(* been delivered (none lost, nobody else acted, nothing left in flight),  *)
(* each student has the teacher's page count and current page.             *)
(***************************************************************************)
C1_PagesConverge ==
  Quiescent =>
    \A b \in Students : /\ Len(pages[b]) = Len(pages["t"])
                        /\ currentPage[b] = currentPage["t"]

(***************************************************************************)
(* C2: in every reachable state the current page of every Whiteboard is an *)
(* index of its page list.                                                 *)
(***************************************************************************)
C2_CurrentPageInRange ==
  \A b \in Boards : currentPage[b] >= 0 /\ currentPage[b] < Len(pages[b])

(***************************************************************************)
(* C3, in the words of the spec: every page event in flight carries the    *)
(* serialized image of the sender's canvas.                                *)
(***************************************************************************)
C3_EventCarriesImage ==
  \A m \in BagToSet(net) : m.type \in PageEvents => "image" \in DOMAIN m.data

(***************************************************************************)
(* C3, as the code has it: a page event carries the channel name and a     *)
(* number (the index of the page switched to, or the new page count) and   *)
(* nothing else.                                                           *)
(***************************************************************************)
C3_EventCarriesIndexOnly ==
  \A m \in BagToSet(net) :
    /\ m.type = "whiteboard:changePage" => DOMAIN m.data = {"channelName", "page"}
    /\ m.type = "whiteboard:newPage" => DOMAIN m.data = {"channelName", "pageCount"}

C3_Witness ==
  \E m \in BagToSet(net) :
    /\ m.type = "whiteboard:changePage"
    /\ \E i \in 1..Len(m.senderPages) : m.senderPages[i].ink # {}

C5_LastWriterWins ==
  last.op = "on:changePage" => currentPage[last.board] = last.data.page

C5_Witness ==
  /\ last.op = "on:changePage"
  /\ last.prev # -1
  /\ last.prev # last.data.page
  /\ last.prev > last.data.page

(***************************************************************************)
(* C6: handling an event of another room changes neither the canvas, the   *)
(* pages, the current page nor the listeners of the receiver, and emits    *)
(* nothing.                                                                *)
(***************************************************************************)
C6_OtherRoomIgnored ==
  [][last'.op = "on:otherRoom" =>
       UNCHANGED <<pages, currentPage, canvas, hPages, pending, net, sent>>]_vars

C6_Witness ==
  /\ last.op = "on:otherRoom"
  /\ canvas[last.board] # {}
  /\ Len(pages[last.board]) > 1

(***************************************************************************)
(* C11: startDrawing, draw, stopDrawing, handleClear and addNewPage of a   *)
(* Whiteboard with isTeacher = false leave its canvas as it is and emit    *)
(* nothing.                                                                *)
(***************************************************************************)
LocalInput(b) ==
  \/ startDrawing(b)
  \/ draw(b)
  \/ stopDrawing(b)
  \/ handleClear(b)
  \/ addNewPage(b)

C11_OnlyTeacherDraws ==
  [][\A b \in Students :
       LocalInput(b) => /\ canvas'[b] = canvas[b]
                        /\ net' = net
                        /\ pages'[b] = pages[b]]_vars

C11_Witness ==
  /\ last.board \in Students
  /\ last.op = "handleClear"
  /\ canvas[last.board] # {}

(***************************************************************************)
(* C12: a Whiteboard with isTeacher = false never emits a whiteboard event: *)
(* no event in flight comes from a student.                                *)
(***************************************************************************)
C12_StudentViewOnly ==
  \A m \in BagToSet(net) : m.from \notin Students

(***************************************************************************)
(* C13: addNewPage of the teacher on page i stores the image of the canvas *)
(* at pages[i], appends one blank page and makes it the current page.      *)
(***************************************************************************)
C13_AddNewPageSavesCurrent ==
  [][\A b \in Boards :
       isTeacher(b) /\ addNewPage(b) =>
         /\ pages'[b] = Append(saveCurrentPage(b, pages[b]), Null)
         /\ currentPage'[b] = Len(pages[b])]_vars

(***************************************************************************)
(* C14: goToPage, run by a click or by the whiteboard:changePage listener, *)
(* stores the image of the canvas at the current index of the page list    *)
(* and leaves every other entry and the length of the list as they were.   *)
(***************************************************************************)
C14_GoToPageSavesOnly ==
  [][\A b \in Boards :
       ClickPage(b) \/ onChangePage(b) =>
         /\ Len(pages'[b]) = Len(pages[b])
         /\ pages'[b] = SetAt(pages[b], currentPage[b], toDataURL(canvas[b]))]_vars

(***************************************************************************)
(* C15: page content round-trips through navigation.  What a canvas shows  *)
(* once the images still loading have been drawn is Shown.  A click that   *)
(* leaves page i for another page stores the content of the canvas under   *)
(* pages[i], and a click on page p shows the content of page p: the        *)
(* content of the canvas when p is the current page, the stored image      *)
(* otherwise.                                                              *)
(***************************************************************************)
Shown(c, loading) == c \cup UNION {loading[k].ink : k \in 1..Len(loading)}

C15_NavigationRoundTrip ==
  [][\A b \in Boards :
       ClickPage(b) /\ pending[b] = <<>> =>
         LET i == currentPage[b]
             p == currentPage'[b]
         IN /\ p # i => At(pages'[b], i).ink = canvas[b]
            /\ Shown(canvas'[b], pending'[b]) =
                 IF p = i THEN canvas[b] ELSE At(pages[b], p).ink]_vars

(***************************************************************************)
(* C16: a Whiteboard that applies a received whiteboard:changePage emits   *)
(* no whiteboard:changePage itself: handling one puts no event in flight,  *)
(* so the events of one page change die out.                               *)
(***************************************************************************)
ChangePagesInFlight(bag) ==
  {m \in BagToSet(bag) : m.type = "whiteboard:changePage"}

C16_NoEcho ==
  [][\A b \in Boards :
       onChangePage(b) =>
         \A m \in ChangePagesInFlight(net') :
           /\ m \in ChangePagesInFlight(net)
           /\ CopiesIn(m, net') <= CopiesIn(m, net)]_vars

(***************************************************************************)
(* C17: a student applies a stroke to the page the teacher drew it on.     *)
(* When a student handles a whiteboard:draw, has the teacher's page count  *)
(* and has nothing else in flight to it, its current page is the page the  *)
(* stroke was drawn on.                                                    *)
(***************************************************************************)
C17_StrokeOnItsPage ==
  [][\A b \in Students :
       \A m \in Inbox(b, "whiteboard:draw") :
         (/\ receiveDraw(b, m)
          /\ \A other \in BagToSet(net) : other.to = b => other = m
          /\ Len(pages[b]) = Len(pages[m.from]))
         => currentPage[b] = m.drawnOn]_vars

(***************************************************************************)
(* C18: handling a whiteboard:clear of its room clears the receiver's      *)
(* canvas exactly when the page the event names is the receiver's current  *)
(* page; otherwise the canvas stays as it is.  The pages and the current   *)
(* page are unchanged either way.                                          *)
(***************************************************************************)
C18_ClearOnlyCurrentPage ==
  [][\A b \in Boards :
       last'.board = b /\ last'.op = "on:clear" =>
         /\ canvas'[b] = IF last'.data.page = currentPage[b] THEN {} ELSE canvas[b]
         /\ pages'[b] = pages[b]
         /\ currentPage'[b] = currentPage[b]]_vars

C18_Witness ==
  /\ last.op = "on:clear"
  /\ last.data.page # currentPage[last.board]
  /\ canvas[last.board] # {}

(***************************************************************************)
(* The timeline of the Analytics component.  getTimelineData is computed   *)
(* from the analytics state on every render.  grouped is a plain object:   *)
(* its keys are kept in the order of insertion (the minute keys of real    *)
(* timestamps are not array indices) and its values are the four Sets.     *)
(***************************************************************************)
MinuteMs == 60000

EngagementStates == {"Engaged", "Bored", "Confused", "Not Paying Attention"}

EmptySets == [s \in EngagementStates |-> {}]

NoGroups == [keys |-> <<>>, sets |-> <<>>]

minuteOf(item) == (item.timestamp \div MinuteMs) * MinuteMs

HasKey(grouped, minute) == \E i \in 1..Len(grouped.keys) : grouped.keys[i] = minute

SetsOf(grouped, minute) ==
  grouped.sets[CHOOSE i \in 1..Len(grouped.keys) : grouped.keys[i] = minute]

groupItem(grouped, item) ==
  LET minute == minuteOf(item)
      g == IF HasKey(grouped, minute)
           THEN grouped
           ELSE [keys |-> Append(grouped.keys, minute),
                 sets |-> Append(grouped.sets, EmptySets)]
      at == CHOOSE i \in 1..Len(g.keys) : g.keys[i] = minute
  IN  IF item.engagement \in EngagementStates
      THEN [g EXCEPT !.sets[at][item.engagement] = @ \cup {item.studentId}]
      ELSE g

RECURSIVE forEachItem(_, _)
forEachItem(items, grouped) ==
  IF items = <<>>
  THEN grouped
  ELSE forEachItem(Tail(items), groupItem(grouped, Head(items)))

RECURSIVE insertKey(_, _)
insertKey(sorted, k) ==
  IF sorted = <<>> THEN <<k>>
  ELSE IF k - Head(sorted) < 0 THEN <<k>> \o sorted
  ELSE <<Head(sorted)>> \o insertKey(Tail(sorted), k)

RECURSIVE sortAscending(_)
unsorted(keys) == keys

sortEntries(keys) == sortAscending(keys)

sortAscending(keys) ==
  IF keys = <<>> THEN <<>>
  ELSE insertKey(sortAscending(Tail(keys)), Head(keys))

timelineRow(minute, sets) ==
  [k \in EngagementStates \cup {"time", "total"} |->
     IF k = "time" THEN minute
     ELSE IF k = "total"
     THEN Cardinality(sets["Engaged"]) + Cardinality(sets["Bored"])
          + Cardinality(sets["Confused"]) + Cardinality(sets["Not Paying Attention"])
     ELSE Cardinality(sets[k])]

getTimelineData(items) ==
  LET grouped == forEachItem(items, NoGroups)
      order == sortEntries(grouped.keys)
  IN  [i \in 1..Len(order) |-> timelineRow(order[i], SetsOf(grouped, order[i]))]

timelineData == getTimelineData(analytics)

(***************************************************************************)
(* The timeline is observed while the teacher is in a call (Analytics is   *)
(* rendered only then): the state after a successful join(), and the       *)
(* polled list of records growing by one record per fetch.                 *)
(***************************************************************************)
Timestamps == {59999, 60000, 119999, 120000}

AnalyticsStudentIds == {"s1", "s2"}

AnalyticsRecords ==
  [timestamp : Timestamps,
   engagement : EngagementStates \cup {"Unknown"},
   studentId : AnalyticsStudentIds]

JoinedCall ==
  /\ pc = "returned"
  /\ localTracks = [audio |-> "track", video |-> "track"]
  /\ isJoined = TRUE
  /\ isLoading = FALSE
  /\ error = "null"
  /\ channelRef = "A"
  /\ inChannel = TRUE
  /\ published = {"audio", "video"}
  /\ trackState = [audio |-> "live", video |-> "live"]
  /\ thrown = "null"
  /\ trackErr = NoError
  /\ camera = "ok"
  /\ microphone = "ok"
  /\ failedStep = "none"
  /\ tokenRequests = 1
  /\ joinAttempts = 1
  /\ rest = [call |-> "token", failed |-> FALSE]

InitTimeline ==
  /\ pages = [b \in Boards |-> <<Null>>]
  /\ currentPage = [b \in Boards |-> 0]
  /\ canvas = [b \in Boards |-> {}]
  /\ isDrawing = [b \in Boards |-> FALSE]
  /\ hPages = [b \in Boards |-> <<Null>>]
  /\ pending = [b \in Boards |-> <<>>]
  /\ net = EmptyBag
  /\ sent = 0
  /\ last = NoStep
  /\ undisturbed = TRUE
  /\ JoinedCall
  /\ analytics = <<>>
  /\ topics = "none"
  /\ currentTopic = ""
  /\ console = "-"
  /\ alertBox = "-"
  /\ socket = connect("null")
  /\ connected = FALSE
  /\ attempts = 0
  /\ sessions = 0
  /\ students = {}
  /\ outbox = <<>>
  /\ announced = FALSE

fetchAnalyticsGrown ==
  /\ Len(analytics) < MaxRecords
  /\ fetchAnalyticsOf({Append(analytics, r) : r \in AnalyticsRecords})

NextTimeline == fetchAnalyticsGrown

SpecTimeline == InitTimeline /\ [][NextTimeline]_vars

(***************************************************************************)
(* C19: when the component using useAgora unmounts after a successful      *)
(* join(), the local audio and video tracks join() created are stopped and *)
(* closed and the channel is left.                                         *)
(***************************************************************************)
C19_UnmountReleasesCall ==
  pc = "unmounted" /\ isJoined =>
    /\ \A k \in {"audio", "video"} : trackState[k] # "live"
    /\ ~inChannel

(***************************************************************************)
(* C20: getTimelineData returns one row per minute bucket                  *)
(* floor(timestamp / 60000) occurring in the analytics, in ascending time  *)
(* order; the count of each of the four engagement states is the number of *)
(* distinct studentIds with a record of that state in that minute, records *)
(* with any other state are ignored, and total is the sum of the four.     *)
(***************************************************************************)
RecordsIn(bucket, state) ==
  {i \in 1..Len(analytics) :
     /\ analytics[i].timestamp \div 60000 = bucket
     /\ analytics[i].engagement = state}

Buckets == {analytics[i].timestamp \div 60000 : i \in 1..Len(analytics)}

====
